---- MODULE Spec2Model ----
(***************************************************************************)
(* Model of the `action` attribute macro (action_macro_original.rs) and of *)
(* the handler closure it emits.                                           *)
(*                                                                         *)
(* Compile time: one expansion of `action(attr, item)` per annotated       *)
(* function, a pure function of the attribute tokens and the parsed        *)
(* function.  Run time: invocations of the emitted handler closure         *)
(* (downcast, call of the original method, the selected handler body).     *)
(***************************************************************************)
EXTENDS Naturals, Sequences, FiniteSets

VARIABLES
    attr,        \* the macro's attribute token stream, as a list of items
    input_fn,    \* the parsed ItemFn (signature only)
    phase,       \* "parsed" before the expansion, "expanded" after it
    locals,      \* the locals of `action` the expansion computed
    output,      \* the token stream `action` returned, as a list of items
    pc,          \* position of the handler invocation in flight
    service_ref, \* concrete type behind the type-erased service reference
    called,      \* the original method was called in this invocation
    ret,         \* what the original method returned in this invocation
    result       \* what the handler closure returned

vars == <<attr, input_fn, phase, locals, output, pc, service_ref, called, ret, result>>

(***************************************************************************)
(* Bounds                                                                  *)
(***************************************************************************)
MaxMetas == 2   \* items in an attribute list
MaxSegs  == 2   \* segments of the return type's path
MaxArgs  == 2   \* generic arguments of the path's last segment

SeqsUpTo(S, n) == UNION {[1..k -> S] : k \in 0..n}

(***************************************************************************)
(* Attribute tokens.  An item is a syn::Meta (NameValue with a string      *)
(* literal, or a bare Path) or a token group that is no Meta at all.       *)
(***************************************************************************)
Keys == {"name", "timeout"}
Strs == {"get_user", ""}

Metas == [kind : {"NameValue"}, key : Keys, value : Strs]
            \cup [kind : {"Path"}, key : Keys]
Junk == [kind : {"Junk"}]

IsMeta(it) == it.kind \in {"NameValue", "Path"}

\* Attribute lists in which no option key occurs twice.
DistinctKeys(a) ==
    \A i, j \in DOMAIN a :
        (i # j /\ IsMeta(a[i]) /\ IsMeta(a[j])) => a[i].key # a[j].key

Attrs == {a \in SeqsUpTo(Metas \cup Junk, MaxMetas) : DistinctKeys(a)}

BasicAttrs == {<<>>, <<[kind |-> "NameValue", key |-> "name", value |-> "get_user"]>>}

(***************************************************************************)
(* The annotated function: identifier, async qualifier, first parameter    *)
(* and declared return type.                                               *)
(***************************************************************************)
MethodNames == {"get_user_by_id", "get_posts"}

\* sig.inputs.first(): None, a typed argument, or a syn::Receiver.
FirstInputs == {"none", "typed", "ref_self", "ref_mut_self", "self_value"}

PathIdents == {"Result", "Option", "PostsData"}

\* Paths of a generic argument (their own generic arguments are never read).
ArgPaths == {<<"ServiceResponse">>, <<"runar_node", "ServiceResponse">>,
             <<"ServiceResponse", "Payload">>, <<"PostsData">>}

GenericArguments ==
    [kind : {"Type"}, ty : [kind : {"Path"}, segments : ArgPaths]]
        \cup {[kind |-> "Type", ty |-> [kind |-> "Other"]]}
        \cup {[kind |-> "Lifetime"]}

PathArguments ==
    {[kind |-> "None"]}
        \cup [kind : {"AngleBracketed"}, args : SeqsUpTo(GenericArguments, MaxArgs)]

\* A path type: its segments' identifiers and the arguments of the last
\* segment (the only ones the macro reads).
PathTypes ==
    [kind : {"Path"},
     segments : SeqsUpTo(PathIdents, MaxSegs) \ {<<>>},
     arguments : PathArguments]

Types == PathTypes \cup {[kind |-> "Other"]}

ReturnTypes == {[kind |-> "Default"]} \cup [kind : {"Type"}, ty : Types]

TyArg(segs) == [kind |-> "Type", ty |-> [kind |-> "Path", segments |-> segs]]
PathRet(segs, args) ==
    [kind |-> "Type",
     ty |-> [kind |-> "Path", segments |-> segs,
             arguments |-> [kind |-> "AngleBracketed", args |-> args]]]

BasicReturnTypes ==
    {[kind |-> "Default"],
     [kind |-> "Type", ty |-> [kind |-> "Other"]],
     PathRet(<<"Result">>, <<TyArg(<<"ServiceResponse">>), TyArg(<<"PostsData">>)>>),
     PathRet(<<"Result">>, <<TyArg(<<"PostsData">>)>>),
     PathRet(<<"Option">>, <<TyArg(<<"PostsData">>)>>)}

ItemFns(idents, rets) ==
    [ident : idents, asyncness : BOOLEAN, first : FirstInputs, output : rets]

(***************************************************************************)
(* Compile time: the body of `action`                                      *)
(***************************************************************************)

\* Punctuated::<Meta, Token![,]>::parse_terminated: fails as a whole when
\* any item is no Meta.
parse_terminated(tokens) ==
    IF \A i \in DOMAIN tokens : IsMeta(tokens[i])
    THEN [ok |-> TRUE, list |-> tokens]
    ELSE [ok |-> FALSE, list |-> <<>>]

\* Mutant of meta_list: a failed parse keeps the items that are Meta.
meta_list_partial(tokens) == SelectSeq(tokens, IsMeta)

\* parser.parse(attr).unwrap_or_default()
meta_list(tokens) ==
    LET parsed == parse_terminated(tokens)
    IN  IF parsed.ok THEN parsed.list ELSE <<>>

\* crate::utils::extract_name_value_pairs: the mapping option name -> string
\* value of the NameValue items (a later item overwrites an earlier one).
extract_name_value_pairs(meta_vec) ==
    LET nv == {i \in DOMAIN meta_vec : meta_vec[i].kind = "NameValue"}
        last(k) == CHOOSE i \in nv :
                      /\ meta_vec[i].key = k
                      /\ \A j \in nv : meta_vec[j].key = k => j <= i
    IN  [k \in {meta_vec[i].key : i \in nv} |-> meta_vec[last(k)].value]

\* Mutant of operation_name: the name option is never consulted.
operation_name_ident(tokens, method_name_str) == method_name_str

operation_name(tokens, method_name_str) ==
    IF tokens = <<>>
    THEN method_name_str
    ELSE LET name_value_pairs == extract_name_value_pairs(meta_list(tokens))
         IN  IF "name" \in DOMAIN name_value_pairs
             THEN name_value_pairs["name"]
             ELSE method_name_str

\* Mutant of asyncness_is_none: the async check is dropped.
asyncness_unchecked(f) == FALSE

\* input_fn.sig.asyncness.is_none()
asyncness_is_none(f) == ~f.asyncness

\* Mutant of first_is_receiver: any first parameter counts as the receiver.
first_is_any_input(f) == f.first # "none"

\* matches!(input_fn.sig.inputs.first(), Some(FnArg::Receiver(_)))
first_is_receiver(f) == f.first \in {"ref_self", "ref_mut_self", "self_value"}

\* syn::Error::new_spanned(span, message).to_compile_error()
compile_error(span, message) ==
    [kind |-> "compile_error", span |-> span, message |-> message]

is_type_named(segments, name) ==
    \E i \in DOMAIN segments : segments[i] = name

is_service_response_return(out) ==
    IF out.kind = "Default" THEN FALSE
    ELSE IF out.ty.kind # "Path" THEN FALSE
    ELSE IF ~is_type_named(out.ty.segments, "Result") THEN FALSE
    ELSE IF out.ty.arguments.kind # "AngleBracketed" THEN FALSE
    ELSE LET args == out.ty.arguments.args
         IN  IF args = <<>> THEN FALSE
             ELSE IF args[1].kind # "Type" THEN FALSE
             ELSE IF args[1].ty.kind # "Path" THEN FALSE
             ELSE is_type_named(args[1].ty.segments, "ServiceResponse")

is_result_return(out) ==
    IF out.kind = "Default" THEN FALSE
    ELSE IF out.ty.kind # "Path" THEN FALSE
    ELSE is_type_named(out.ty.segments, "Result")

\* Mutant of handler_code: every return type gets the wrapping body.
handler_code_always_wrap(returns_service_response, method_name, op_name) ==
    <<[op |-> "call", arg |-> method_name],
      [op |-> "context", arg |-> "Error executing " \o op_name],
      [op |-> "try", arg |-> ""],
      [op |-> "success", arg |-> "Operation succeeded"]>>

\* Mutant of handler_code: the error context names the method, not the
\* resolved operation name.
handler_code_method_context(returns_service_response, method_name, op_name) ==
    LET call    == [op |-> "call", arg |-> method_name]
        context == [op |-> "context", arg |-> "Error executing " \o method_name]
    IN  IF returns_service_response
        THEN <<call, context>>
        ELSE <<call, context,
               [op |-> "try", arg |-> ""],
               [op |-> "success", arg |-> "Operation succeeded"]>>

\* The handler body template, as the steps the emitted code performs.
handler_code(returns_service_response, method_name, op_name) ==
    LET call    == [op |-> "call", arg |-> method_name]
        context == [op |-> "context", arg |-> "Error executing " \o op_name]
    IN  IF returns_service_response
        THEN <<call, context>>
        ELSE <<call, context,
               [op |-> "try", arg |-> ""],
               [op |-> "success", arg |-> "Operation succeeded"]>>

\* The ReturnShape the two classification flags stand for.
ReturnShape(returns_service_response, returns_result) ==
    IF returns_service_response THEN "WrappedResponse"
    ELSE IF returns_result THEN "RawResult"
    ELSE "Raw"

NotAnalysed(op_name) ==
    [operation_name |-> op_name, analysed |-> FALSE,
     returns_service_response |-> FALSE, returns_result |-> FALSE]

\* The whole macro: the locals it computed and the token stream it returned.
action(tokens, f) ==
    LET method_name_str == f.ident
        op_name == operation_name(tokens, method_name_str)
    IN  IF asyncness_is_none(f)
        THEN [locals |-> NotAnalysed(op_name),
              output |-> <<compile_error("fn_token", "action methods must be async")>>]
        ELSE IF ~first_is_receiver(f)
        THEN [locals |-> NotAnalysed(op_name),
              output |-> <<compile_error("sig",
                  "Action handlers must be methods with &self or &mut self parameter")>>]
        ELSE LET self_ty == "Self"
                 returns_service_response == is_service_response_return(f.output)
                 returns_result == is_result_return(f.output)
             IN  [locals |-> [operation_name |-> op_name, analysed |-> TRUE,
                              returns_service_response |-> returns_service_response,
                              returns_result |-> returns_result],
                  output |-> <<[kind |-> "fn", ident |-> f.ident],
                               [kind |-> "ActionItem",
                                name |-> op_name,
                                service_type_id |-> self_ty,
                                handler_fn |-> handler_code(returns_service_response,
                                                            f.ident, op_name)]>>]

(***************************************************************************)
(* Run time: the emitted handler closure                                   *)
(***************************************************************************)

ServiceTypes == {"Self", "OtherService"}

\* The registration records of a token stream.
ActionItems(out) == SelectSeq(out, LAMBDA it : it.kind = "ActionItem")

HasStep(code, op) == \E i \in DOMAIN code : code[i].op = op

\* What the declared return type resolves to when `Result` and `Option` name
\* the standard types: the last path segment decides.
ReturnKind(out) ==
    IF out.kind = "Default" THEN "Plain"
    ELSE IF out.ty.kind # "Path" THEN "Plain"
    ELSE LET last == out.ty.segments[Len(out.ty.segments)]
         IN  IF last \in {"Result", "Option"} THEN last ELSE "Plain"

\* The Ok type of a Result return type is the service response.
OkIsServiceResponse(out) ==
    /\ out.ty.arguments.kind = "AngleBracketed"
    /\ out.ty.arguments.args # <<>>
    /\ out.ty.arguments.args[1].kind = "Type"
    /\ out.ty.arguments.args[1].ty.kind = "Path"
    /\ LET segs == out.ty.arguments.args[1].ty.segments
       IN  segs[Len(segs)] = "ServiceResponse"

\* The emitted closure builds: anyhow's `.context(..)` exists on Result and
\* Option only, and a body without the wrapping step must itself evaluate to
\* Result<ServiceResponse>.
Compiles(code, out) ==
    IF HasStep(code, "success")
    THEN ReturnKind(out) \in {"Result", "Option"}
    ELSE ReturnKind(out) = "Result" /\ OkIsServiceResponse(out)

\* ServiceResponse::success(message, data)
success(message, data) == [status |-> "Success", message |-> message, data |-> data]

\* result.into(): the value converted to a ValueType
into(v) == [ValueType |-> v]

Responses == {success("User found", <<into("user_data")>>),
              success("Operation succeeded", <<>>)}
NativeValues == {"posts_data"}
MethodErrors == {<<"not found">>}

\* What a call of the original method can return.
MethodReturns(out) ==
    LET ok == IF ReturnKind(out) = "Result" /\ OkIsServiceResponse(out)
              THEN Responses ELSE NativeValues
    IN  IF ReturnKind(out) = "Result"
        THEN [tag : {"Ok"}, val : ok] \cup [tag : {"Err"}, err : MethodErrors]
        ELSE IF ReturnKind(out) = "Option"
        THEN [tag : {"Some"}, val : ok] \cup {[tag |-> "None"]}
        ELSE [tag : {"Plain"}, val : ok]

\* Mutant of downcast_ref: the reference is used unchecked.
downcast_unchecked(ref, self_ty) == TRUE

\* service_ref.downcast_ref::<Self>() is Some
downcast_ref(ref, self_ty) == ref = self_ty

\* anyhow::Context::context on a Result or an Option
context(r, message) ==
    IF r.tag \in {"Ok", "Some"} THEN [tag |-> "Ok", val |-> r.val]
    ELSE IF r.tag = "Err" THEN [tag |-> "Err", err |-> <<message>> \o r.err]
    ELSE [tag |-> "Err", err |-> <<message>>]

\* The steps of the handler body after the call of the method.
run_body(code, r) ==
    LET c == context(r, code[2].arg)
    IN  IF ~HasStep(code, "try") THEN c
        ELSE IF c.tag = "Err" THEN c
        ELSE [tag |-> "Ok", val |-> success(code[4].arg, <<into(c.val)>>)]

NoReturn == [tag |-> "none"]

Idle ==
    /\ pc = "idle"
    /\ service_ref = "none"
    /\ called = FALSE
    /\ ret = NoReturn
    /\ result = NoReturn

Init ==
    /\ attr \in BasicAttrs
    /\ input_fn \in ItemFns({"get_user_by_id"}, ReturnTypes)
    /\ phase = "parsed"
    /\ locals = NotAnalysed("")
    /\ output = <<>>
    /\ Idle

InitAttr ==
    /\ attr \in Attrs
    /\ input_fn \in ItemFns(MethodNames, BasicReturnTypes)
    /\ phase = "parsed"
    /\ locals = NotAnalysed("")
    /\ output = <<>>
    /\ Idle

\* The compiler expands the attribute macro on the annotated function.
Expand ==
    /\ phase = "parsed"
    /\ phase' = "expanded"
    /\ locals' = action(attr, input_fn).locals
    /\ output' = action(attr, input_fn).output
    /\ UNCHANGED <<attr, input_fn, pc, service_ref, called, ret, result>>

\* The dispatcher invokes the registered handler closure.
Invoke(ref, operation) ==
    /\ phase = "expanded"
    /\ pc = "idle"
    /\ ActionItems(output) # <<>>
    /\ Compiles(ActionItems(output)[1].handler_fn, input_fn.output)
    /\ pc' = "downcast"
    /\ service_ref' = ref
    /\ called' = FALSE
    /\ ret' = NoReturn
    /\ result' = NoReturn
    /\ UNCHANGED <<attr, input_fn, phase, locals, output>>

\* downcast_ref(..).ok_or_else(..)? on a reference of another type
DowncastFails ==
    /\ pc = "downcast"
    /\ ~downcast_ref(service_ref, ActionItems(output)[1].service_type_id)
    /\ result' = [tag |-> "Err", err |-> <<"Service type mismatch in action handler">>]
    /\ pc' = "done"
    /\ UNCHANGED <<attr, input_fn, phase, locals, output, service_ref, called, ret>>

DowncastOk ==
    /\ pc = "downcast"
    /\ downcast_ref(service_ref, ActionItems(output)[1].service_type_id)
    /\ pc' = "call"
    /\ UNCHANGED <<attr, input_fn, phase, locals, output, service_ref, called, ret, result>>

\* service.method(context, params).await
CallMethod ==
    /\ pc = "call"
    /\ called' = TRUE
    /\ ret' \in MethodReturns(input_fn.output)
    /\ pc' = "body"
    /\ UNCHANGED <<attr, input_fn, phase, locals, output, service_ref, result>>

\* The rest of the selected handler body, up to the closure's return value.
FinishBody ==
    /\ pc = "body"
    /\ result' = run_body(ActionItems(output)[1].handler_fn, ret)
    /\ pc' = "done"
    /\ UNCHANGED <<attr, input_fn, phase, locals, output, service_ref, called, ret>>

\* The closure has returned; it keeps no state between invocations.
Return ==
    /\ pc = "done"
    /\ pc' = "idle"
    /\ service_ref' = "none"
    /\ called' = FALSE
    /\ ret' = NoReturn
    /\ result' = NoReturn
    /\ UNCHANGED <<attr, input_fn, phase, locals, output>>

Next ==
    \/ Expand
    \/ \E ref \in ServiceTypes, operation \in {"get_user", "other"} : Invoke(ref, operation)
    \/ DowncastFails
    \/ DowncastOk
    \/ CallMethod
    \/ FinishBody
    \/ Return

Spec == Init /\ [][Next]_vars

SpecAttr == InitAttr /\ [][Next]_vars

(***************************************************************************)
(* Properties                                                              *)
(***************************************************************************)

Expanded == phase = "expanded"
Records == ActionItems(output)
Emitted == Expanded /\ Records # <<>>
Diagnostics == SelectSeq(output, LAMBDA it : it.kind = "compile_error")
Shape == ReturnShape(locals.returns_service_response, locals.returns_result)
ContextOf(name) == "Error executing " \o name

\* The attribute tokens parse as a list of options.
WellFormed == \A i \in DOMAIN attr : attr[i].kind # "Junk"
\* The values of the name options written in the attribute tokens.
NameOptions ==
    {attr[i].value : i \in {j \in DOMAIN attr :
        attr[j].kind = "NameValue" /\ attr[j].key = "name"}}
HasNameOption == WellFormed /\ NameOptions # {}

\* C1: when the option list holds name = "X", the emitted registration
\* record is named X and the handler's error context is "Error executing X",
\* whatever the function's identifier and the other option keys.
C1_ExplicitNameIsOperationName ==
    (Emitted /\ HasNameOption) =>
        \A X \in NameOptions :
            /\ Records[1].name = X
            /\ Records[1].handler_fn[2].arg = ContextOf(X)

C1_Witness ==
    /\ Emitted /\ HasNameOption
    /\ Len(attr) = 2
    /\ input_fn.ident = "get_user_by_id"
    /\ Records[1].name = "get_user"

\* C2: without a name option (no tokens, only other keys, or tokens that do
\* not parse) the emitted operation name is the function's identifier, and a
\* valid function always gets its registration record, whatever the tokens.
C2_DefaultNameIsIdentifier ==
    /\ (Emitted /\ ~HasNameOption) => Records[1].name = input_fn.ident
    /\ (Expanded /\ ~HasNameOption /\ input_fn.asyncness
            /\ input_fn.first \in {"ref_self", "ref_mut_self"})
        => (Len(Records) = 1 /\ Diagnostics = <<>>)

C2_Witness ==
    /\ Emitted
    /\ ~WellFormed
    /\ NameOptions = {"get_user"}
    /\ Records[1].name = "get_posts"

\* C3: a function that is not async expands to the single diagnostic
\* anchored at the fn keyword, and to no registration record.
C3_NonAsyncRejected ==
    (Expanded /\ ~input_fn.asyncness) =>
        /\ output = <<[kind |-> "compile_error", span |-> "fn_token",
                       message |-> "action methods must be async"]>>
        /\ Records = <<>>

C3_Witness ==
    /\ Expanded
    /\ ~input_fn.asyncness
    /\ input_fn.first = "ref_self"
    /\ attr # <<>>
    /\ Len(Diagnostics) = 1

\* C4: a function whose first parameter is no receiver expands to a
\* diagnostic and no registration record; an async function with a &self or
\* &mut self first parameter is never rejected, whatever its return type.
C4_ReceiverRequired ==
    Expanded =>
        /\ input_fn.first \in {"none", "typed"}
            => (Len(Diagnostics) = 1 /\ Records = <<>>)
        /\ (input_fn.asyncness /\ input_fn.first \in {"ref_self", "ref_mut_self"})
            => (Diagnostics = <<>> /\ Len(Records) = 1)

C4_Witness ==
    /\ Expanded
    /\ input_fn.asyncness
    /\ input_fn.first = "none"
    /\ Len(Diagnostics) = 1
    /\ Diagnostics[1].span = "sig"

\* C5: an invocation with a service reference of another concrete type
\* returns Err("Service type mismatch in action handler") without calling the
\* original method; the method is called only after a successful downcast.
C5_TypeMismatchNeverCalls ==
    /\ called => service_ref = "Self"
    /\ (pc = "done" /\ service_ref # "Self") =>
        /\ result.tag = "Err"
        /\ result.err = <<"Service type mismatch in action handler">>
        /\ ~called

C5_Witness ==
    /\ pc = "done"
    /\ service_ref = "OtherService"
    /\ result.tag = "Err"

\* C6: the handler of a function classified WrappedResponse returns the
\* method's own response on success, not a new "Operation succeeded"
\* response around it, and the method's error under the context
\* "Error executing <operation-name>" on failure.
C6_WrappedResponsePassesThrough ==
    (pc = "done" /\ called /\ Shape = "WrappedResponse") =>
        /\ ret.tag = "Ok" => (result.tag = "Ok" /\ result.val = ret.val)
        /\ ret.tag = "Err" =>
            /\ result.tag = "Err"
            /\ result.err = <<ContextOf(Records[1].name)>> \o ret.err

C6_Witness ==
    /\ pc = "done" /\ called /\ Shape = "WrappedResponse"
    /\ ret.tag = "Ok"
    /\ ret.val.message = "User found"
    /\ result.val.message = "User found"

\* The classification rule on the last path segment only.
LastSegmentNamed(segments, name) == segments[Len(segments)] = name

LastSegmentShape(out) ==
    IF out.kind = "Default" THEN "Raw"
    ELSE IF out.ty.kind # "Path" THEN "Raw"
    ELSE IF ~LastSegmentNamed(out.ty.segments, "Result") THEN "Raw"
    ELSE IF /\ out.ty.arguments.kind = "AngleBracketed"
            /\ out.ty.arguments.args # <<>>
            /\ out.ty.arguments.args[1].kind = "Type"
            /\ out.ty.arguments.args[1].ty.kind = "Path"
            /\ LastSegmentNamed(out.ty.arguments.args[1].ty.segments, "ServiceResponse")
         THEN "WrappedResponse"
         ELSE "RawResult"

\* C7: classification follows the last path segment only: absent -> Raw;
\* last segment Result with a first generic argument whose last segment is
\* ServiceResponse -> WrappedResponse; any other last segment Result ->
\* RawResult; everything else -> Raw.
C7_ClassifiesByLastSegment ==
    locals.analysed => Shape = LastSegmentShape(input_fn.output)

\* C8: the operation name of every emitted registration record is non-empty,
\* also with an explicit name option whose value is the empty string.
C8_OperationNameNonEmpty ==
    Emitted => Records[1].name # ""

\* C9: the handler of a function classified RawResult returns, when the
\* method succeeds with v, a new success response "Operation succeeded" with
\* payload Some(convert(v)), and when it fails, the error under the context
\* "Error executing <operation-name>" of the resolved operation name.
C9_RawResultWrapsSuccess ==
    (pc = "done" /\ called
        /\ (Shape = "RawResult" \/ LastSegmentShape(input_fn.output) = "RawResult")) =>
        /\ ret.tag = "Ok" =>
            /\ result.tag = "Ok"
            /\ result.val = [status |-> "Success", message |-> "Operation succeeded",
                             data |-> <<[ValueType |-> ret.val]>>]
        /\ ret.tag = "Err" =>
            /\ result.tag = "Err"
            /\ result.err = <<ContextOf(locals.operation_name)>> \o ret.err

C9_Witness ==
    /\ pc = "done" /\ called /\ Shape = "RawResult"
    /\ ret.tag = "Err"
    /\ attr # <<>>
    /\ result.err = <<"Error executing get_user", "not found">>

\* C10: the handler body of a function classified Raw has no failure branch
\* around the method call, always ends with the success response once the
\* downcast has succeeded, and differs from the RawResult body.
C10_RawBodyHasNoFailureBranch ==
    (Emitted /\ Shape = "Raw") =>
        /\ ~HasStep(Records[1].handler_fn, "context")
        /\ ~HasStep(Records[1].handler_fn, "try")
        /\ Records[1].handler_fn
             # handler_code(FALSE, input_fn.ident, locals.operation_name)
        /\ (pc = "done" /\ called) =>
            /\ result.tag = "Ok"
            /\ result.val.message = "Operation succeeded"

====
